---- MODULE Spec2Model ----
(***************************************************************************)
(* Model of the process supervisor of VSLAM-LAB:                           *)
(*   BaselineVSLAMLab.execute, .monitor_memory and .kill_process           *)
(*   (src/Baselines/BaselineVSLAMLab.py, lines 160-283).                   *)
(*                                                                         *)
(* Two threads run per call of execute: the control-flow thread ("main")   *)
(* and the monitor thread ("mon").  The child is a process-group leader    *)
(* (preexec_fn=os.setsid) that may have forked one helper into its group.  *)
(* Time is abstracted: a timeout may expire whenever the waited-for event  *)
(* has not happened yet.  Memory is measured in integer units; a ratio     *)
(* used/total > p/100 is compared as used*100 > p*total.                   *)
(***************************************************************************)
EXTENDS Integers, Sequences, FiniteSets, TLC

VARIABLES
    pc,             \* pc[t]: position of thread t in its code
    child,          \* group leader: "unborn", "running", "zombie", "reaped"
    exitstatus,     \* exit status of the leader once it has exited
    term_pending,   \* a SIGTERM was delivered to the running leader
    helper,         \* helper in the group: "none", "obedient", "stubborn", "dead"
    artifact,       \* the expected trajectory csv exists
    host,           \* [ram_total, swap_total] of the machine
    nvml,           \* what the NVML library does on this machine
    command,        \* what the shell finds when it runs the command string
    exp_it,         \* the run index execute was called with
    fs,             \* dataset folder: the sequence directory, its zip, the raw data
    call,           \* the dataset method in progress or last ended
    nvml_open,      \* successful nvmlInit calls minus nvmlShutdown calls
    gpu_handle,     \* monitor_memory local
    base,           \* monitor_memory locals ram_0, swap_0, gpu_0
    ram_max, swap_max,
    inc_max,        \* monitor_memory locals ram_inc_max, swap_inc_max, gpu_inc_max
    success_flag,   \* success_flag[0]
    comment_queue,  \* queue.Queue of diagnostics
    comments,       \* execute local, a sequence of text pieces
    memory_stats,   \* dict shared by the monitor and execute
    result,         \* <<>> until execute returns, then <<the dict>>
    hist            \* history of the run (not read by the program)

procVars == <<child, exitstatus, term_pending, helper, artifact>>
envVars  == <<host, nvml, command, exp_it, fs, call>>
monVars  == <<nvml_open, gpu_handle, base, ram_max, swap_max, inc_max>>
shared   == <<success_flag, comment_queue, memory_stats>>
vars     == <<pc, procVars, envVars, monVars, shared, comments, result, hist>>
supVars  == <<pc, procVars, host, nvml, command, exp_it, monVars, shared,
              comments, result, hist>>

----------------------------------------------------------------------------
(* Program constants, in percent.                                          *)
MAX_SWAP_PERC == 80
MAX_RAM_PERC  == 95

(* Bound of the exploration: sampling intervals the monitor sleeps through *)
MaxSleeps == 1

(* Readings the machine can give (used RAM, used swap), for totals 20 / 10: *)
(*   low, exactly at both fractions, RAM over, swap over, both over.        *)
Readings == { [ram |-> 5,  swap |-> 2], [ram |-> 19, swap |-> 8],
              [ram |-> 20, swap |-> 2], [ram |-> 5,  swap |-> 9],
              [ram |-> 20, swap |-> 9] }
Baselines == { [ram |-> 5, swap |-> 2], [ram |-> 19, swap |-> 8] }
Hosts == { [ram_total |-> 20, swap_total |-> 10],
           [ram_total |-> 20, swap_total |-> 0] }
\* hosts that report no swap, or no memory at all
ZeroHosts == { [ram_total |-> 20, swap_total |-> 0],
               [ram_total |-> 0,  swap_total |-> 10],
               [ram_total |-> 0,  swap_total |-> 0] }
GpuReadings == {0, 1}
RunIndexes  == {0, 7, 42, 12345, 100000}
ExitCodes   == {0, 1}
NvmlModes   == {"init_fails", "no_device", "lookup_fails", "ok"}
Commands    == {"runs", "not_found"}
Threads     == {"main", "mon"}

(* Exit status of /bin/sh -c when the command's executable does not exist  *)
ShellNotFound == 127

(* Text pieces of the diagnostics.                                         *)
TooLong == "Process took too long"
RamMsg  == "RAM threshold exceeded"
SwapMsg == "Swap threshold exceeded"
NL      == "\n"

Max(a, b) == IF a >= b THEN a ELSE b

(* A value of the result dict: a number, or the 'N/A' default of dict.get  *)
Num(n) == [tag |-> "num", val |-> n]
NA     == [tag |-> "N/A", val |-> 0]
Get(d, k) == IF k \in DOMAIN d THEN Num(d[k]) ELSE NA

(* ram_perc > MAX_RAM_PERC with ram_perc = used/max if max > 0 else 0.0    *)
RamBreach_never(used, total) == total > 0 /\ used * 100 > 100 * total
RamBreach_geq(used, total) == total > 0 /\ used * 100 >= MAX_RAM_PERC * total
RamBreach(used, total)  == total > 0 /\ used * 100 > MAX_RAM_PERC * total
SwapBreach_ram_perc(used, total) == total > 0 /\ used * 100 > MAX_RAM_PERC * total
SwapBreach_unguarded(used, total) == used * 100 > MAX_SWAP_PERC * total
SwapBreach(used, total) == total > 0 /\ used * 100 > MAX_SWAP_PERC * total

(* str(exp_it): the decimal digits, one character per element *)
Digits == <<"0", "1", "2", "3", "4", "5", "6", "7", "8", "9">>
RECURSIVE str(_)
str(n) ==
    IF n < 0 THEN <<"-">> \o str(-n)
    ELSE IF n < 10 THEN <<Digits[n + 1]>>
    ELSE Append(str(n \div 10), Digits[(n % 10) + 1])

(* s.zfill(width): zeros on the left, after a leading sign, up to width *)
zfill_nopad(s, width) == s
zfill(s, width) ==
    IF Len(s) >= width THEN s
    ELSE LET pad == [i \in 1..(width - Len(s)) |-> "0"]
         IN  IF s # <<>> /\ s[1] \in {"+", "-"}
             THEN <<s[1]>> \o pad \o Tail(s)
             ELSE pad \o s

TRAJECTORY_FILE_NAME == "KeyFrameTrajectory"

(* exp_folder / ("system_output_" + str(exp_it).zfill(5) + ".txt") *)
log_file_path(n) ==
    <<"exp_folder", "system_output_">> \o zfill(str(n), 5) \o <<".txt">>

(* exp_folder / (str(exp_it).zfill(5) + f"_{TRAJECTORY_FILE_NAME}.csv") *)
trajectory_path(n) ==
    <<"exp_folder">> \o zfill(str(n), 5) \o <<"_", TRAJECTORY_FILE_NAME, ".csv">>

(* ram_used - ram_0                                                        *)
Increment_raw(used, base0) == used
Increment(used, base0) == used - base0

(* success_flag[0] after the artifact check of execute                     *)
ArtifactVerdict_ignore(flag, exists) == flag
ArtifactVerdict_inverted(flag, exists) == flag /\ ~exists
ArtifactVerdict_overwrite(flag, exists) == exists
ArtifactVerdict_exitcode(flag, exists) == flag /\ exists /\ exitstatus = 0
ArtifactVerdict(flag, exists) == flag /\ exists

(* success_flag[0] as the TimeoutExpired handler of execute leaves it      *)
TimeoutVerdict_kept(flag) == flag
TimeoutVerdict(flag) == FALSE

(* DatasetVSLAMLab: one sequence of a dataset on disk.                     *)
Entries == {"rgb_0", "rgb.csv", "calibration.yaml", "groundtruth.csv"}
ZipOutcomes == {"exit_0", "exit_12", "not_started"}
NoFiles == [dir |-> FALSE, entries |-> {}, zip |-> FALSE, raw |-> FALSE]
Folders ==
    { f \in [dir : BOOLEAN, entries : SUBSET Entries,
              zip : BOOLEAN, raw : BOOLEAN] : ~f.dir => f.entries = {} }
Idle == [op |-> "none", pc |-> "idle", status |-> "none", steps |-> <<>>,
         outcome |-> "none", zipped |-> "not_run", before |-> NoFiles]

(* the requirements of check_sequence_integrity for modes = ["mono"] *)
check_sequence_integrity(f) ==
    f.dir /\ {"rgb_0", "rgb.csv", "calibration.yaml"} \subseteq f.entries

check_sequence_availability_zip_first(f) ==
    IF f.zip THEN "zipped"
    ELSE IF f.dir
         THEN IF check_sequence_integrity(f) THEN "available" ELSE "corrupted"
    ELSE "non-available"
check_sequence_availability(f) ==
    IF f.dir
    THEN IF check_sequence_integrity(f) THEN "available" ELSE "corrupted"
    ELSE IF f.zip THEN "zipped"
    ELSE "non-available"

(* the calls of download_process, in its order *)
Hooks == <<"download_sequence_data", "create_rgb_folder", "create_rgb_csv",
           "create_imu_csv", "create_calibration_yaml",
           "create_groundtruth_csv", "remove_unused_files">>

(* what a hook of TEST_dataset leaves on disk when it completes *)
HookEffect(h, f) ==
    IF h = "download_sequence_data"
    THEN [f EXCEPT !.dir = TRUE, !.entries = @ \cup {"rgb_0"}]
    ELSE IF h = "create_rgb_csv"
    THEN [f EXCEPT !.entries = @ \cup {"rgb.csv"}]
    ELSE IF h = "create_calibration_yaml"
    THEN [f EXCEPT !.entries = @ \cup {"calibration.yaml"}]
    ELSE IF h = "create_groundtruth_csv"
    THEN [f EXCEPT !.entries = @ \cup {"groundtruth.csv"}]
    ELSE f

(* subprocess.run(cmd_zip, ..., check=True) returns instead of raising *)
RunChecked_unchecked(z) == z # "not_started"
RunChecked(z) == z = "exit_0"

----------------------------------------------------------------------------
(* History.                                                                *)
NoObs == -1000
Hist0 == [ timed_out  |-> FALSE,   \* communicate raised TimeoutExpired
           breach     |-> "none",  \* breach branch taken by the monitor
           excess     |-> "none",  \* first fraction a reading really exceeded
           kills      |-> [main |-> 0, mon |-> 0],  \* calls of kill_process
           sigterm    |-> 0,       \* killpg(SIGTERM) delivered
           sigkill    |-> 0,       \* killpg(SIGKILL) delivered
           logs       |-> 0,       \* "Process killed." messages
           gone_call  |-> FALSE,   \* kill_process entered on a reaped child
           sleeps     |-> 0,       \* sampling intervals slept through
           obs_ram    |-> NoObs,   \* max (used - ram_0) over all readings
           obs_swap   |-> NoObs,
           trk_ram    |-> NoObs,   \* same over the readings that were tracked
           trk_swap   |-> NoObs,
           artifact_seen |-> FALSE, \* outcome of the artifact check
           writes     |-> [main |-> 0, mon |-> 0],  \* stores to success_flag[0]
           live_write |-> FALSE,   \* main stored while the monitor was alive
           snap_after_launch |-> FALSE, \* snapshot taken with the child born
           gpu_failed |-> FALSE,   \* a call of pynvml raised after nvmlInit
           sent       |-> [main |-> <<>>, mon |-> <<>>],  \* signals per caller
           waited     |-> [main |-> "none", mon |-> "none"], \* wait outcome
           both_over  |-> FALSE,   \* a reading exceeded both fractions at once
           emitted    |-> <<>>,    \* diagnostics in the order they were emitted
           log_path   |-> <<>>,    \* file opened for the child's output
           checked_path |-> <<>> ] \* file whose existence was tested

----------------------------------------------------------------------------
\* the locals of execute at its first line, on a given host
Started ==
    /\ pc = [main |-> "open", mon |-> "idle"]
    /\ child = "unborn" /\ exitstatus = 0
    /\ term_pending = FALSE /\ helper = "none"
    /\ artifact = FALSE
    /\ nvml_open = 0 /\ gpu_handle = FALSE
    /\ base = [ram |-> 0, swap |-> 0, gpu |-> 0]
    /\ ram_max = 0 /\ swap_max = 0
    /\ inc_max = [ram |-> 0, swap |-> 0, gpu |-> 0]
    /\ success_flag = TRUE
    /\ comment_queue = <<>>
    /\ comments = <<>>
    /\ memory_stats = <<>>
    /\ result = <<>>
    /\ hist = Hist0

Init ==
    /\ host \in Hosts
    /\ nvml \in NvmlModes
    /\ command \in Commands
    /\ exp_it = 0
    /\ fs = NoFiles /\ call = Idle
    /\ Started

----------------------------------------------------------------------------
(* The child process group.                                                *)

\* the leader exits by itself
ChildExit ==
    /\ child = "running"
    /\ \E c \in ExitCodes :
          exitstatus' = IF command = "not_found" THEN ShellNotFound ELSE c
    /\ child' = "zombie"
    /\ UNCHANGED <<pc, term_pending, helper, artifact, envVars,
                   monVars, shared, comments, result, hist>>

\* the leader dies of a delivered SIGTERM (a leader that ignores the signal,
\* or needs longer than the grace period, is one that does not take this step)
ChildTermDie ==
    /\ child = "running" /\ term_pending
    /\ child' = "zombie" /\ exitstatus' = -15
    /\ UNCHANGED <<pc, term_pending, helper, artifact, envVars,
                   monVars, shared, comments, result, hist>>

\* the baseline writes its trajectory file
ChildWriteArtifact ==
    /\ child = "running" /\ ~artifact /\ command = "runs"
    /\ artifact' = TRUE
    /\ UNCHANGED <<pc, child, exitstatus, term_pending, helper,
                   envVars, monVars, shared, comments, result, hist>>

----------------------------------------------------------------------------
(* kill_process(process), run by thread t.                                 *)

\* where the caller goes on after kill_process: execute joins the monitor,
\* monitor_memory breaks out of its loop
KillReturn_nobreak(t) == IF t = "main" THEN "join" ELSE "sleep"
KillReturn(t) == IF t = "main" THEN "join" ELSE "shutdown"

\* where kill_process goes on when process.wait(timeout=5) has returned
AfterWait_always_kill == "kp_kill"
AfterWait == "kp_log"

\* os.killpg(os.getpgid(process.pid), signal.SIGTERM)
kill_process_SIGTERM(t) ==
    /\ pc[t] = "kp_term"
    /\ IF child = "reaped"
       THEN \* os.getpgid raises ProcessLookupError: the pid is gone
            /\ pc' = [pc EXCEPT ![t] = "raised"]
            /\ hist' = [hist EXCEPT !.kills[t] = @ + 1, !.gone_call = TRUE]
            /\ UNCHANGED <<term_pending, helper>>
       ELSE /\ pc' = [pc EXCEPT ![t] = "kp_wait"]
            /\ term_pending' = (term_pending \/ child = "running")
            /\ helper' = IF helper = "obedient" THEN "dead" ELSE helper
            /\ hist' = [hist EXCEPT !.kills[t] = @ + 1, !.sigterm = @ + 1,
                                    !.sent[t] = Append(@, "SIGTERM")]
    /\ UNCHANGED <<child, exitstatus, artifact, envVars, monVars,
                   shared, comments, result>>

\* process.wait(timeout=5) returns: the leader has exited
kill_process_wait(t) ==
    /\ pc[t] = "kp_wait"
    /\ child \in {"zombie", "reaped"}
    /\ child' = "reaped"
    /\ pc' = [pc EXCEPT ![t] = AfterWait]
    /\ hist' = [hist EXCEPT !.waited[t] = "exited"]
    /\ UNCHANGED <<exitstatus, term_pending, helper, artifact,
                   envVars, monVars, shared, comments, result>>

\* process.wait(timeout=5) gives up on a leader that is still running
WaitExpires_never(c) == FALSE
WaitExpires(c) == c = "running"

\* process.wait(timeout=5) raises TimeoutExpired
kill_process_TimeoutExpired(t) ==
    /\ pc[t] = "kp_wait"
    /\ WaitExpires(child)
    /\ pc' = [pc EXCEPT ![t] = "kp_kill"]
    /\ hist' = [hist EXCEPT !.waited[t] = "expired"]
    /\ UNCHANGED <<procVars, envVars, monVars, shared, comments, result>>

\* os.killpg(os.getpgid(process.pid), signal.SIGKILL)
kill_process_SIGKILL(t) ==
    /\ pc[t] = "kp_kill"
    /\ IF child = "reaped"
       THEN /\ pc' = [pc EXCEPT ![t] = "raised"]
            /\ UNCHANGED <<child, exitstatus, helper, hist>>
       ELSE /\ pc' = [pc EXCEPT ![t] = "kp_log"]
            /\ child' = IF child = "running" THEN "zombie" ELSE child
            /\ exitstatus' = IF child = "running" THEN -9 ELSE exitstatus
            /\ helper' = IF helper \in {"obedient", "stubborn"}
                         THEN "dead" ELSE helper
            /\ hist' = [hist EXCEPT !.sigkill = @ + 1,
                                    !.sent[t] = Append(@, "SIGKILL")]
    /\ UNCHANGED <<term_pending, artifact, envVars, monVars,
                   shared, comments, result>>

\* print_msg(SCRIPT_LABEL, "Process killed.", 'error')
kill_process_log(t) ==
    /\ pc[t] = "kp_log"
    /\ pc' = [pc EXCEPT ![t] = KillReturn(t)]
    /\ hist' = [hist EXCEPT !.logs = @ + 1]
    /\ UNCHANGED <<procVars, envVars, monVars, shared, comments, result>>

kill_process(t) ==
    \/ kill_process_SIGTERM(t)
    \/ kill_process_wait(t)
    \/ kill_process_TimeoutExpired(t)
    \/ kill_process_SIGKILL(t)
    \/ kill_process_log(t)

----------------------------------------------------------------------------
(* monitor_memory, the target of memory_thread.                            *)

\* pynvml.nvmlInit(), nvmlDeviceGetCount(), nvmlDeviceGetHandleByIndex(0)
monitor_memory_nvmlInit ==
    /\ pc["mon"] = "nvml_init"
    /\ nvml_open' = IF nvml = "init_fails" THEN nvml_open ELSE nvml_open + 1
    /\ gpu_handle' = (nvml = "ok")
    /\ pc' = [pc EXCEPT !["mon"] = "snapshot"]
    /\ UNCHANGED <<procVars, envVars, base, ram_max, swap_max, inc_max,
                   shared, comments, result, hist>>

\* initial snapshots swap_0, swap_max, ram_0, ram_max, gpu_0
monitor_memory_snapshot ==
    /\ pc["mon"] = "snapshot"
    /\ \E r \in Baselines, g \in GpuReadings, gpu_ok \in BOOLEAN :
          /\ base' = [ram |-> r.ram, swap |-> r.swap,
                      gpu |-> IF gpu_handle /\ gpu_ok THEN g ELSE 0]
          /\ hist' = [hist EXCEPT
                         !.snap_after_launch = (child # "unborn"),
                         !.gpu_failed = @ \/ (gpu_handle /\ ~gpu_ok)]
    /\ ram_max' = host.ram_total
    /\ swap_max' = host.swap_total
    /\ pc' = [pc EXCEPT !["mon"] = "poll"]
    /\ UNCHANGED <<procVars, envVars, nvml_open, gpu_handle, inc_max,
                   shared, comments, result>>

\* while process.poll() is None
monitor_memory_poll ==
    /\ pc["mon"] = "poll"
    /\ IF child = "running"
       THEN pc' = [pc EXCEPT !["mon"] = "sample"] /\ child' = child
       ELSE pc' = [pc EXCEPT !["mon"] = "shutdown"] /\ child' = "reaped"
    /\ UNCHANGED <<exitstatus, term_pending, helper, artifact,
                   envVars, monVars, shared, comments, result, hist>>

\* where the loop goes on after nvmlDeviceGetMemoryInfo returned or raised
AfterGpuRead_uncaught(ok) == IF ok THEN "sleep" ELSE "raised"
AfterGpuRead(ok) == "sleep"

Observe(h, r) ==
    [h EXCEPT !.obs_ram  = Max(@, r.ram - base.ram),
              !.obs_swap = Max(@, r.swap - base.swap),
              !.excess   = IF @ # "none" THEN @
                           ELSE IF host.ram_total > 0
                                   /\ r.ram * 100 > 95 * host.ram_total
                                THEN "ram"
                           ELSE IF host.swap_total > 0
                                   /\ r.swap * 100 > 80 * host.swap_total
                                THEN "swap"
                           ELSE "none",
              !.both_over = @ \/ (/\ host.ram_total > 0
                                  /\ r.ram * 100 > 95 * host.ram_total
                                  /\ host.swap_total > 0
                                  /\ r.swap * 100 > 80 * host.swap_total)]

\* one pass of the loop body whose reading breaches the RAM fraction
monitor_memory_ram_breach ==
    /\ pc["mon"] = "sample"
    /\ \E r \in Readings :
          /\ RamBreach(r.ram, ram_max)
          /\ hist' = [Observe(hist, r) EXCEPT !.breach = "ram",
                                               !.writes["mon"] = @ + 1,
                                               !.emitted = Append(@, RamMsg)]
    /\ success_flag' = FALSE
    /\ comment_queue' = Append(comment_queue, RamMsg)
    /\ pc' = [pc EXCEPT !["mon"] = "kp_term"]
    /\ UNCHANGED <<procVars, envVars, monVars, memory_stats, comments, result>>

\* one pass of the loop body whose reading breaches the swap fraction only
monitor_memory_swap_breach ==
    /\ pc["mon"] = "sample"
    /\ \E r \in Readings :
          /\ ~RamBreach(r.ram, ram_max)
          /\ SwapBreach(r.swap, swap_max)
          /\ hist' = [Observe(hist, r) EXCEPT !.breach = "swap",
                                               !.writes["mon"] = @ + 1,
                                               !.emitted = Append(@, SwapMsg)]
    /\ success_flag' = FALSE
    /\ comment_queue' = Append(comment_queue, SwapMsg)
    /\ pc' = [pc EXCEPT !["mon"] = "kp_term"]
    /\ UNCHANGED <<procVars, envVars, monVars, memory_stats, comments, result>>

\* one pass of the loop body without a breach: track the increments
monitor_memory_track ==
    /\ pc["mon"] = "sample"
    /\ \E r \in Readings, g \in GpuReadings, gpu_ok \in BOOLEAN :
          /\ ~RamBreach(r.ram, ram_max)
          /\ ~SwapBreach(r.swap, swap_max)
          /\ inc_max' = [ram  |-> Max(inc_max.ram, Increment(r.ram, base.ram)),
                         swap |-> Max(inc_max.swap, Increment(r.swap, base.swap)),
                         gpu  |-> IF gpu_handle /\ gpu_ok
                                  THEN Max(inc_max.gpu, Increment(g, base.gpu))
                                  ELSE inc_max.gpu]
          /\ hist' = [Observe(hist, r) EXCEPT
                         !.trk_ram  = Max(@, r.ram - base.ram),
                         !.trk_swap = Max(@, r.swap - base.swap),
                         !.gpu_failed = @ \/ (gpu_handle /\ ~gpu_ok)]
          /\ pc' = [pc EXCEPT !["mon"] = AfterGpuRead(~gpu_handle \/ gpu_ok)]
    /\ UNCHANGED <<procVars, envVars, nvml_open, gpu_handle, base, ram_max,
                   swap_max, shared, comments, result>>

\* time.sleep(interval)
monitor_memory_sleep ==
    /\ pc["mon"] = "sleep"
    /\ hist.sleeps < MaxSleeps
    /\ pc' = [pc EXCEPT !["mon"] = "poll"]
    /\ hist' = [hist EXCEPT !.sleeps = @ + 1]
    /\ UNCHANGED <<procVars, envVars, monVars, shared, comments, result>>

\* if gpu_handle: pynvml.nvmlShutdown()
monitor_memory_nvmlShutdown ==
    /\ pc["mon"] = "shutdown"
    /\ nvml_open' = IF gpu_handle THEN nvml_open - 1 ELSE nvml_open
    /\ \E shutdown_ok \in BOOLEAN :
          hist' = [hist EXCEPT !.gpu_failed = @ \/ (gpu_handle /\ ~shutdown_ok)]
    /\ pc' = [pc EXCEPT !["mon"] = "publish"]
    /\ UNCHANGED <<procVars, envVars, gpu_handle, base, ram_max, swap_max,
                   inc_max, shared, comments, result>>

\* memory_stats['ram'], ['swap'], ['gpu'] = the three maxima
monitor_memory_publish ==
    /\ pc["mon"] = "publish"
    /\ memory_stats' = inc_max
    /\ pc' = [pc EXCEPT !["mon"] = "done"]
    /\ UNCHANGED <<procVars, envVars, monVars, success_flag, comment_queue,
                   comments, result, hist>>

monitor_memory ==
    \/ monitor_memory_nvmlInit
    \/ monitor_memory_snapshot
    \/ monitor_memory_poll
    \/ monitor_memory_ram_breach
    \/ monitor_memory_swap_breach
    \/ monitor_memory_track
    \/ monitor_memory_sleep
    \/ monitor_memory_nvmlShutdown
    \/ monitor_memory_publish

----------------------------------------------------------------------------
(* execute, run by the control-flow thread.                                *)

\* memory_thread.join() returns once the thread has ended, normally or not
thread_join_nowait == TRUE
thread_join == pc["mon"] \in {"done", "raised"}

\* subprocess.Popen(command, shell=True, ..., preexec_fn=os.setsid)
execute_Popen ==
    /\ pc["main"] = "open"
    /\ child' = "running"
    /\ helper' \in IF command = "runs"
                   THEN {"none", "obedient", "stubborn"} ELSE {"none"}
    /\ pc' = [pc EXCEPT !["main"] = "thread_start"]
    /\ hist' = [hist EXCEPT !.log_path = log_file_path(exp_it)]
    /\ UNCHANGED <<exitstatus, term_pending, artifact, envVars, monVars,
                   shared, comments, result>>

\* open(log_file_path, 'w') or Popen raises: the error leaves execute
execute_Popen_fails ==
    /\ pc["main"] = "open"
    /\ pc' = [pc EXCEPT !["main"] = "spawn_error"]
    /\ \E opened \in BOOLEAN :
          hist' = [hist EXCEPT !.log_path = IF opened THEN log_file_path(exp_it)
                                            ELSE @]
    /\ UNCHANGED <<procVars, envVars, monVars, shared, comments, result>>

\* memory_thread.start()
execute_thread_start ==
    /\ pc["main"] = "thread_start"
    /\ pc' = [main |-> "communicate", mon |-> "nvml_init"]
    /\ UNCHANGED <<procVars, envVars, monVars, shared, comments, result, hist>>

\* process.communicate(timeout=timeout_seconds) returns
execute_communicate ==
    /\ pc["main"] = "communicate"
    /\ child \in {"zombie", "reaped"}
    /\ child' = "reaped"
    /\ pc' = [pc EXCEPT !["main"] = "join"]
    /\ UNCHANGED <<exitstatus, term_pending, helper, artifact,
                   envVars, monVars, shared, comments, result, hist>>

\* except subprocess.TimeoutExpired: record it, then kill_process
execute_TimeoutExpired ==
    /\ pc["main"] = "communicate"
    /\ child = "running"
    /\ comments' = <<TooLong>>
    /\ success_flag' = TimeoutVerdict(success_flag)
    /\ pc' = [pc EXCEPT !["main"] = "kp_term"]
    /\ hist' = [hist EXCEPT !.timed_out = TRUE,
                            !.emitted = Append(@, TooLong),
                            !.writes["main"] = @ + 1,
                            !.live_write = @ \/ pc["mon"] \notin {"done", "raised"}]
    /\ UNCHANGED <<procVars, envVars, monVars, comment_queue, memory_stats,
                   result>>

\* memory_thread.join()
execute_join ==
    /\ pc["main"] = "join"
    /\ thread_join
    /\ pc' = [pc EXCEPT !["main"] = "drain"]
    /\ UNCHANGED <<procVars, envVars, monVars, shared, comments, result, hist>>

RECURSIVE Drained(_)
Drained(q) == IF q = <<>> THEN <<>> ELSE <<Head(q), NL>> \o Drained(Tail(q))

\* while not comment_queue.empty(): comments += comment_queue.get() + "\n"
execute_drain ==
    /\ pc["main"] = "drain"
    /\ comments' = comments \o Drained(comment_queue)
    /\ comment_queue' = <<>>
    /\ pc' = [pc EXCEPT !["main"] = "check"]
    /\ UNCHANGED <<procVars, envVars, monVars, success_flag, memory_stats,
                   result, hist>>

\* if not (exp_folder / ...csv).exists(): success_flag[0] = False
execute_check_artifact ==
    /\ pc["main"] = "check"
    /\ success_flag' = ArtifactVerdict(success_flag, artifact)
    /\ pc' = [pc EXCEPT !["main"] = "return"]
    /\ hist' = [hist EXCEPT !.artifact_seen = artifact,
                            !.checked_path = trajectory_path(exp_it),
                            !.writes["main"] = IF artifact THEN @ ELSE @ + 1,
                            !.live_write = @ \/ (~artifact /\ pc["mon"] \notin {"done", "raised"})]
    /\ UNCHANGED <<procVars, envVars, monVars, comment_queue, memory_stats,
                   comments, result>>

\* return {"success": ..., "comments": ..., "ram": ..., "swap": ..., "gpu": ...}
execute_return ==
    /\ pc["main"] = "return"
    /\ result' = << [success  |-> success_flag,
                     comments |-> comments,
                     ram      |-> Get(memory_stats, "ram"),
                     swap     |-> Get(memory_stats, "swap"),
                     gpu      |-> Get(memory_stats, "gpu")] >>
    /\ pc' = [pc EXCEPT !["main"] = "done"]
    /\ UNCHANGED <<procVars, envVars, monVars, shared, comments, hist>>

execute ==
    \/ execute_Popen
    \/ execute_Popen_fails
    \/ execute_thread_start
    \/ execute_communicate
    \/ execute_TimeoutExpired
    \/ execute_join
    \/ execute_drain
    \/ execute_check_artifact
    \/ execute_return

----------------------------------------------------------------------------
Next ==
    \/ execute
    \/ monitor_memory
    \/ \E t \in Threads : kill_process(t)
    \/ ChildExit
    \/ ChildTermDie
    \/ ChildWriteArtifact

Spec == Init /\ [][Next]_vars

-----------------------------------------------------------------------------
(* Runs under fair scheduling.  Both threads and the calls of kill_process *)
(* they make keep taking steps; the timeouts of communicate and of         *)
(* process.wait are finite, so a thread waiting on one takes its step.     *)
(* Nothing is assumed of the child: it need not exit nor obey SIGTERM.     *)

\* time.sleep(interval), any number of further times
monitor_memory_sleep_on ==
    /\ pc["mon"] = "sleep"
    /\ hist.sleeps = MaxSleeps
    /\ pc' = [pc EXCEPT !["mon"] = "poll"]
    /\ UNCHANGED <<procVars, envVars, monVars, shared, comments, result, hist>>

LiveInit ==
    /\ host = [ram_total |-> 20, swap_total |-> 10]
    /\ nvml = "init_fails"
    /\ command = "runs"
    /\ exp_it = 0
    /\ fs = NoFiles /\ call = Idle
    /\ Started

NextLive ==
    \/ Next
    \/ monitor_memory_sleep_on

LiveSpec ==
    /\ LiveInit /\ [][NextLive]_vars
    /\ WF_vars(execute)
    /\ WF_vars(monitor_memory \/ monitor_memory_sleep_on)
    /\ \A t \in Threads : WF_vars(kill_process(t))

----------------------------------------------------------------------------
(* Properties of the supervisor.                                           *)

Returned == result # <<>>
Contains(seq, x) == \E i \in 1..Len(seq) : seq[i] = x
KillCalls == hist.kills["main"] + hist.kills["mon"]
GroupAlive == child = "running" \/ helper \in {"obedient", "stubborn"}

\* C1: whenever execute has returned a result, success is true exactly when
\* the wait did not time out, the monitor recorded no breach and the artifact
\* existed when it was checked; a run in which kill_process was called, or
\* whose artifact was missing, is never reported as a success.
C1_SuccessVerdict ==
    Returned =>
        /\ result[1].success <=>
              (~hist.timed_out /\ hist.breach = "none" /\ hist.artifact_seen)
        /\ (KillCalls > 0 \/ ~hist.artifact_seen) => ~result[1].success

C1_Witness ==
    /\ Returned /\ hist.timed_out /\ hist.artifact_seen
    /\ ~result[1].success

\* C2: if the wait timed out, then once execute has returned no process of
\* the child's group is alive, success is false and comments holds the
\* 'too long' message.
C2_TimeoutLeavesNoProcess ==
    (Returned /\ hist.timed_out) =>
        /\ ~GroupAlive
        /\ ~result[1].success
        /\ Contains(result[1].comments, TooLong)

\* C3: once a reading taken while the child runs exceeds 0.95 of the total
\* RAM, the monitor goes straight to kill_process without sleeping another
\* interval, and a returned result has success false and the RAM diagnostic.
C3_RamExcessTerminates ==
    hist.excess = "ram" =>
        /\ pc["mon"] = "kp_term" \/ hist.kills["mon"] = 1
        /\ pc["mon"] \notin {"sleep", "poll", "sample"}
        /\ Returned => /\ ~result[1].success
                       /\ Contains(result[1].comments, RamMsg)

C3_Witness ==
    /\ Returned /\ hist.excess = "ram" /\ hist.kills["mon"] = 1
    /\ hist.sigterm > 0

\* C4: once a reading exceeds 0.80 of the total swap while its RAM ratio is
\* at most 0.95, the monitor goes straight to kill_process, and a returned
\* result has success false, the swap diagnostic and no RAM diagnostic.
C4_SwapExcessTerminates ==
    hist.excess = "swap" =>
        /\ pc["mon"] = "kp_term" \/ hist.kills["mon"] = 1
        /\ pc["mon"] \notin {"sleep", "poll", "sample"}
        /\ Returned => /\ ~result[1].success
                       /\ Contains(result[1].comments, SwapMsg)
                       /\ ~Contains(result[1].comments, RamMsg)

C4_Witness ==
    /\ Returned /\ hist.excess = "swap" /\ hist.kills["mon"] = 1
    /\ hist.sigterm > 0

\* C5: a child that exits by itself with code 0, without timeout and without
\* any reading over a fraction, but whose artifact is absent, gives success
\* false, no call of kill_process, no signal, and empty comments.
C5_MissingArtifact ==
    (/\ Returned /\ exitstatus = 0
     /\ ~hist.timed_out /\ hist.excess = "none"
     /\ ~hist.artifact_seen) =>
        /\ ~result[1].success
        /\ KillCalls = 0 /\ hist.sigterm = 0 /\ hist.sigkill = 0
        /\ result[1].comments = <<>>

C5_Witness ==
    /\ Returned /\ exitstatus = 0 /\ child = "reaped"
    /\ ~hist.timed_out /\ hist.excess = "none" /\ hist.obs_ram # NoObs
    /\ ~hist.artifact_seen

\* C6: a child that exits on its own (any exit code) within the timeout,
\* with no reading over a fraction and with the artifact present, gives
\* success true and comments equal to the empty string.
C6_CleanRun ==
    (/\ Returned /\ exitstatus \in ExitCodes
     /\ ~hist.timed_out /\ hist.excess = "none"
     /\ hist.artifact_seen) =>
        /\ result[1].success
        /\ result[1].comments = <<>>

C6_Witness ==
    /\ Returned /\ exitstatus \in ExitCodes /\ child = "reaped"
    /\ ~hist.timed_out /\ hist.excess = "none" /\ hist.obs_ram # NoObs
    /\ hist.artifact_seen /\ result[1].success

\* C7: kill_process called on a child that has already exited and been
\* reaped does not raise: no thread ends in the exception of os.getpgid.
C7_KillIdempotent ==
    hist.gone_call => \A t \in Threads : pc[t] # "raised"

C9_GpuUnavailableSentinel ==
    (Returned /\ nvml \in {"init_fails", "no_device"}) =>
        result[1].gpu.tag # "num"

\* C10: execute drains the queue, checks the artifact, reads the flag and
\* the peaks, and returns, only after the monitor thread has ended.
C10_JoinBarrier ==
    (pc["main"] \in {"drain", "check", "return", "done"} \/ Returned) =>
        pc["mon"] \in {"done", "raised"}

C10_Witness ==
    /\ pc["main"] = "drain" /\ pc["mon"] = "done"
    /\ hist.kills["mon"] = 1 /\ comment_queue # <<>>

C12_OneFailureReason ==
    (Returned /\ hist.timed_out /\ hist.breach # "none") =>
        ~ /\ Contains(result[1].comments, TooLong)
          /\ \/ Contains(result[1].comments, RamMsg)
             \/ Contains(result[1].comments, SwapMsg)

\* C13: when the command cannot be spawned (its executable is missing, or
\* Popen itself raises) the monitor thread is never started and execute
\* returns no result.
C13_SpawnFailurePropagates ==
    (command = "not_found" \/ pc["main"] = "spawn_error") =>
        /\ pc["mon"] = "idle"
        /\ ~Returned

\* C14: when the monitor thread has ended, every successful nvmlInit has
\* been followed by exactly one nvmlShutdown.
C14_TelemetryReleased ==
    pc["mon"] \in {"done", "raised"} => nvml_open = 0

\* C15: the baseline snapshot is taken while the child is not yet launched.
C15_BaselineBeforeLaunch ==
    pc["mon"] \notin {"idle", "nvml_init", "snapshot"} =>
        ~hist.snap_after_launch

(* comments as a function of the timeout outcome and the breach branch     *)
CommentsOf(timed_out, breach) ==
    (IF timed_out THEN <<TooLong>> ELSE <<>>)
    \o (IF breach = "ram" THEN <<RamMsg, NL>>
        ELSE IF breach = "swap" THEN <<SwapMsg, NL>> ELSE <<>>)

\* C16: the returned success and comments are determined by the timeout
\* outcome, the breach the readings led to and the presence of the artifact;
\* the exit status of the child does not enter, so two runs that differ only
\* in the exit code return the same success and comments.
C16_ExitCodeIndependence ==
    Returned =>
        /\ result[1].success =
              (~hist.timed_out /\ hist.breach = "none" /\ hist.artifact_seen)
        /\ result[1].comments = CommentsOf(hist.timed_out, hist.breach)

C16_Witness ==
    /\ Returned /\ exitstatus = 1 /\ child = "reaped"
    /\ result[1].success /\ result[1].comments = <<>>

TelemetryFailed ==
    nvml \in {"init_fails", "lookup_fails"} \/ hist.gpu_failed

\* C17: a run in which a pynvml call failed is supervised like any other:
\* the monitor thread ends by an exception only inside its own kill_process,
\* it calls kill_process only on a reading over a fraction and does so on
\* every such reading, and the returned success and comments are what the
\* timeout, the readings and the artifact alone determine.
C17_TelemetryFailureHarmless ==
    TelemetryFailed =>
        /\ pc["mon"] = "raised" => hist.kills["mon"] = 1
        /\ hist.kills["mon"] > 0 => hist.excess # "none"
        /\ hist.excess # "none" =>
              (pc["mon"] = "kp_term" \/ hist.kills["mon"] = 1)
        /\ (hist.writes["mon"] > 0 \/ comment_queue # <<>>) =>
              hist.excess # "none"
        /\ Returned =>
              /\ result[1].success =
                    (/\ ~hist.timed_out /\ hist.excess = "none"
                     /\ hist.artifact_seen)
              /\ result[1].comments = CommentsOf(hist.timed_out, hist.excess)

C17_Witness ==
    /\ Returned /\ nvml = "ok" /\ hist.gpu_failed
    /\ hist.sleeps > 0 /\ result[1].success

\* C18: within one call of kill_process SIGTERM is the first signal sent to
\* the group; SIGKILL is sent only after it and only when the wait of up to
\* 5 seconds expired, never when the wait returned because the process exited.
C18_EscalationOrder ==
    \A t \in Threads :
        /\ hist.sent[t] \in {<<>>, <<"SIGTERM">>, <<"SIGTERM", "SIGKILL">>}
        /\ pc[t] \in {"kp_wait", "kp_kill", "kp_log"} => hist.sent[t] # <<>>
        /\ pc[t] = "kp_kill" => hist.waited[t] = "expired"
        /\ Len(hist.sent[t]) = 2 => hist.waited[t] = "expired"
        /\ hist.waited[t] = "exited" => hist.sent[t] = <<"SIGTERM">>
        /\ hist.waited[t] # "none" => hist.sent[t] # <<>>

C18_Witness ==
    /\ hist.sent["main"] = <<"SIGTERM", "SIGKILL">>
    /\ hist.sent["mon"] = <<"SIGTERM">> /\ hist.waited["mon"] = "exited"

\* C19: every call of kill_process that has ended has logged 'Process
\* killed.' exactly once.
C19_LogsOncePerCall ==
    (\A t \in Threads : pc[t] \notin {"kp_term", "kp_wait", "kp_kill", "kp_log"})
        => hist.logs = KillCalls

\* C20: no exception leaves kill_process in either thread.
C20_NoExceptionEscapes ==
    \A t \in Threads : pc[t] # "raised"

MonitorDiagnostics(seq) ==
    Cardinality({i \in 1..Len(seq) : seq[i] \in {RamMsg, SwapMsg}})

\* C22: once the monitor has taken a breach branch it takes no further
\* reading and does not sleep again, it calls kill_process exactly once and
\* emits exactly one diagnostic, so the queue never holds more than one
\* entry; a reading over both fractions is recorded as the RAM breach only.
C22_BreachEndsMonitoring ==
    /\ hist.breach # "none" =>
          /\ pc["mon"] \notin {"poll", "sample", "sleep"}
          /\ pc["mon"] = "kp_term" \/ hist.kills["mon"] = 1
          /\ MonitorDiagnostics(hist.emitted) = 1
    /\ hist.kills["mon"] <= 1
    /\ Len(comment_queue) <= 1
    /\ MonitorDiagnostics(hist.emitted) <= 1
    /\ hist.both_over =>
          /\ hist.breach = "ram"
          /\ ~Contains(hist.emitted, SwapMsg)
          /\ ~Contains(comment_queue, SwapMsg)
          /\ ~Contains(comments, SwapMsg)

C22_Witness ==
    /\ Returned /\ hist.both_over /\ hist.sleeps > 0
    /\ result[1].comments = <<RamMsg, NL>>
    /\ pc["mon"] = "done"

\* C23: whenever execute returns, the monitor thread has left its loop
\* without raising and has published its peaks: ram and swap of the result
\* are numbers, never the 'N/A' default.
C23_PeaksAlwaysPublished ==
    Returned =>
        /\ pc["mon"] # "raised"
        /\ result[1].ram.tag = "num" /\ result[1].swap.tag = "num"

(* diagnostics each followed by a newline / with a newline between them    *)
Terminated(q) ==
    [i \in 1..(2 * Len(q)) |-> IF i % 2 = 1 THEN q[(i + 1) \div 2] ELSE NL]
Separated(q) ==
    IF q = <<>> THEN <<>> ELSE SubSeq(Terminated(q), 1, 2 * Len(q) - 1)

\* C24: the returned comments are all diagnostics of the run in the order
\* they were emitted, separated (or each terminated) by a newline, and the
\* queue is empty once execute has returned.
C24_CommentsInEmissionOrder ==
    Returned =>
        /\ comment_queue = <<>>
        /\ \/ result[1].comments = Separated(hist.emitted)
           \/ result[1].comments = Terminated(hist.emitted)

(* highest raw readings the monitor has taken (defined once it has read)   *)
TopRam  == hist.obs_ram + base.ram
TopSwap == hist.obs_swap + base.swap

\* C25: readings that reach exactly 0.95 of the total RAM, or exactly 0.80
\* of the total swap, and do not go beyond either fraction, are not a breach:
\* the monitor does not call kill_process, stores nothing to the success
\* cell, queues nothing, and counts the readings in its running maxima.
C25_StrictComparison ==
    (/\ hist.obs_ram # NoObs
     /\ TopRam * 100 <= 95 * host.ram_total
     /\ host.swap_total > 0 => TopSwap * 100 <= 80 * host.swap_total
     /\ \/ TopRam * 100 = 95 * host.ram_total
        \/ host.swap_total > 0 /\ TopSwap * 100 = 80 * host.swap_total) =>
        /\ hist.breach = "none"
        /\ hist.kills["mon"] = 0 /\ hist.writes["mon"] = 0
        /\ comment_queue = <<>>
        /\ inc_max.ram = Max(0, hist.obs_ram)
        /\ inc_max.swap = Max(0, hist.obs_swap)
        /\ pc["mon"] \notin {"kp_term", "kp_wait", "kp_kill", "kp_log", "raised"}

C25_Witness ==
    /\ TopRam * 100 = 95 * host.ram_total
    /\ host.swap_total > 0 /\ TopSwap * 100 = 80 * host.swap_total
    /\ base.ram = 5 /\ inc_max.ram = 14 /\ inc_max.swap = 6
    /\ Returned /\ result[1].success

-----------------------------------------------------------------------------
(* Runs on hosts whose total swap or total RAM is reported as 0.           *)
InitZero ==
    /\ host \in ZeroHosts
    /\ nvml = "init_fails"
    /\ command = "runs"
    /\ exp_it = 0
    /\ fs = NoFiles /\ call = Idle
    /\ Started

SpecZero == InitZero /\ [][Next]_vars

-----------------------------------------------------------------------------
(* Runs of execute for several run indexes.                                *)
InitPaths ==
    /\ host = [ram_total |-> 20, swap_total |-> 10]
    /\ nvml = "init_fails"
    /\ command = "runs"
    /\ exp_it \in RunIndexes
    /\ fs = NoFiles /\ call = Idle
    /\ Started

SpecPaths == InitPaths /\ [][Next]_vars

-----------------------------------------------------------------------------
(* DatasetVSLAMLab.download_sequence and zip_sequence_folder, called any   *)
(* number of times on any state of the dataset folder.                     *)

\* download_sequence up to the call of download_process
download_sequence ==
    /\ call.pc = "idle"
    /\ LET status == check_sequence_availability(fs)
       IN  call' = [Idle EXCEPT
                      !.op = "download", !.status = status, !.before = fs,
                      !.pc = IF status = "non-available" THEN "download"
                             ELSE "idle",
                      !.outcome = IF status \in {"available", "zipped"}
                                  THEN "returned"
                                  ELSE IF status = "corrupted" THEN "exited"
                                  ELSE "none"]
    /\ UNCHANGED <<fs, supVars>>

\* download_process: the next hook completes, exits or raises
download_process ==
    /\ call.pc = "download"
    /\ LET h    == Hooks[Len(call.steps) + 1]
           last == Len(call.steps) + 1 = Len(Hooks)
       IN  \/ /\ h = "download_sequence_data" => fs.raw
              /\ fs' = HookEffect(h, fs)
              /\ call' = [call EXCEPT
                            !.steps = Append(@, h),
                            !.pc = IF last THEN "idle" ELSE "download",
                            !.outcome = IF last THEN "returned" ELSE "none"]
           \/ /\ h = "download_sequence_data" /\ ~fs.raw
              /\ call' = [call EXCEPT !.pc = "idle", !.outcome = "exited"]
              /\ UNCHANGED fs
           \/ /\ h = "download_sequence_data" => fs.raw
              /\ \E written \in BOOLEAN :
                    fs' = IF written THEN HookEffect(h, fs) ELSE fs
              /\ call' = [call EXCEPT !.pc = "idle", !.outcome = "raised"]
    /\ UNCHANGED supVars

\* zip_sequence_folder: zip, then rmtree if the zip file is there
zip_sequence_folder ==
    /\ call.pc = "idle"
    /\ \E z \in ZipOutcomes, present \in BOOLEAN, removed \in BOOLEAN :
          /\ z = "exit_0" => fs.dir
          /\ LET after == [fs EXCEPT !.zip = IF z = "exit_0" THEN present
                                             ELSE @]
                 rm    == RunChecked(z) /\ after.zip
             IN  fs' = IF ~rm THEN after
                       ELSE IF removed
                            THEN [after EXCEPT !.dir = FALSE, !.entries = {}]
                       ELSE [after EXCEPT !.entries = {}]
          /\ call' = [Idle EXCEPT !.op = "zip", !.before = fs, !.zipped = z,
                                  !.outcome = "returned"]
    /\ UNCHANGED supVars

InitData ==
    /\ host = [ram_total |-> 20, swap_total |-> 10]
    /\ nvml = "init_fails"
    /\ command = "runs"
    /\ exp_it = 0
    /\ fs \in Folders /\ call = Idle
    /\ Started

NextData ==
    \/ download_sequence
    \/ download_process
    \/ zip_sequence_folder

SpecData == InitData /\ [][NextData]_vars

Ended ==
    /\ pc["main"] \in {"done", "raised", "spawn_error"}
    /\ pc["mon"] \in {"idle", "done", "raised"}
    /\ child # "running"

\* C21: under fair scheduling every run ends: the child is eventually dead,
\* the monitor thread has ended (or was never started), and execute has
\* returned or raised; no call of kill_process stays in process.wait and
\* execute does not stay in memory_thread.join, also when the child never
\* exits by itself and ignores SIGTERM.
C21_EveryRunEnds ==
    /\ <>Ended
    /\ \A t \in Threads : (pc[t] = "kp_wait") ~> (pc[t] # "kp_wait")
    /\ (pc["main"] = "join") ~> (pc["main"] # "join")

C21_Witness ==
    /\ Ended /\ Returned
    /\ hist.timed_out /\ hist.waited["main"] = "expired"
    /\ hist.sent["main"] = <<"SIGTERM", "SIGKILL">>
    /\ hist.sleeps = MaxSleeps

\* C26: on a host whose total swap is 0 the swap readings never cause a
\* breach, a kill or a message, whatever their value, and likewise for RAM
\* on a host whose total RAM is 0; when the other resource is within its
\* fraction too, the monitor never calls kill_process, never raises, and
\* tracks the readings as usual.
C26_ZeroCapacityNeverBreaches ==
    /\ host.swap_total = 0 =>
          /\ hist.breach # "swap" /\ hist.excess # "swap"
          /\ ~Contains(hist.emitted, SwapMsg)
    /\ host.ram_total = 0 =>
          /\ hist.breach # "ram" /\ hist.excess # "ram"
          /\ ~Contains(hist.emitted, RamMsg)
    /\ (/\ hist.obs_ram # NoObs
        /\ host.ram_total = 0 \/ TopRam * 100 <= 95 * host.ram_total
        /\ host.swap_total = 0 \/ TopSwap * 100 <= 80 * host.swap_total) =>
          /\ hist.breach = "none" /\ hist.kills["mon"] = 0
          /\ pc["mon"] # "raised"
          /\ inc_max.ram = Max(0, hist.obs_ram)
          /\ inc_max.swap = Max(0, hist.obs_swap)

C26_Witness ==
    /\ host.ram_total = 0 /\ host.swap_total = 0
    /\ TopRam = 20 /\ TopSwap = 9
    /\ Returned /\ result[1].success
    /\ result[1].ram = Num(15) /\ result[1].swap = Num(7)

RECURSIVE Pow10(_)
Pow10(k) == IF k = 0 THEN 1 ELSE 10 * Pow10(k - 1)
NumDigits(n) == CHOOSE k \in 1..9 : n < Pow10(k) /\ (k = 1 \/ n >= Pow10(k - 1))
(* a non-negative number printed with format 05d *)
FiveDigits(n) ==
    LET w == Max(5, NumDigits(n))
    IN  [i \in 1..w |-> Digits[((n \div Pow10(w - i)) % 10) + 1]]

\* C27: for every run index, the file opened for the child's output is
\* exp_folder/system_output_<index as 05d>.txt and the file whose existence
\* is tested is exp_folder/<index as 05d>_KeyFrameTrajectory.csv, both with
\* the index of this call; the test happens after the log was opened, the
\* child has ended and the monitor thread has been joined.
C27_PathsCarryRunIndex ==
    /\ hist.log_path # <<>> =>
          hist.log_path = <<"exp_folder", "system_output_">>
                              \o FiveDigits(exp_it) \o <<".txt">>
    /\ hist.checked_path # <<>> =>
          /\ hist.checked_path = <<"exp_folder">> \o FiveDigits(exp_it)
                                     \o <<"_", "KeyFrameTrajectory", ".csv">>
          /\ hist.log_path # <<>>
          /\ SubSeq(hist.log_path, 3, Len(hist.log_path) - 1)
                = SubSeq(hist.checked_path, 2, Len(hist.checked_path) - 3)
          /\ child # "running"
          /\ pc["mon"] \in {"done", "raised"}
    /\ pc["main"] \in {"return", "done"} => hist.checked_path # <<>>

C27_Witness ==
    /\ Returned /\ exp_it = 42
    /\ hist.log_path = <<"exp_folder", "system_output_",
                         "0", "0", "0", "4", "2", ".txt">>
    /\ hist.checked_path = <<"exp_folder", "0", "0", "0", "4", "2",
                             "_", "KeyFrameTrajectory", ".csv">>

SameDirectory(f, g) == f.dir = g.dir /\ f.entries = g.entries

\* C28: after zip_sequence_folder the sequence directory differs from what
\* it was only if zip exited with 0 and the zip file exists; when zip failed,
\* could not be started, or left no zip file, the directory is as before;
\* the call always returns.
C28_RemovesOnlyAfterZip ==
    call.op = "zip" =>
        /\ call.outcome = "returned"
        /\ ~SameDirectory(fs, call.before) =>
              call.zipped = "exit_0" /\ fs.zip
        /\ (call.zipped # "exit_0" \/ ~fs.zip) =>
              SameDirectory(fs, call.before)

C28_Witness ==
    /\ call.op = "zip" /\ call.zipped = "exit_12"
    /\ call.before.zip /\ fs.zip
    /\ fs.dir /\ fs.entries = Entries /\ fs = call.before

IsPrefix(p, q) == Len(p) <= Len(q) /\ SubSeq(q, 1, Len(p)) = p

\* C29: download_sequence starts the download process exactly when the
\* sequence is neither a directory nor a zip; the hooks run in the order
\* download data, rgb folder, rgb csv, imu csv, calibration yaml,
\* groundtruth csv, remove unused files; for an available or zipped
\* sequence it returns with the folder untouched, for a corrupted one it
\* exits with the folder untouched; a directory decides the status even
\* when a zip exists.
C29_DownloadOnlyWhenAbsent ==
    call.op = "download" =>
        LET b == call.before
            complete == {"rgb_0", "rgb.csv", "calibration.yaml"} \subseteq b.entries
        IN  /\ call.status = IF b.dir /\ complete THEN "available"
                             ELSE IF b.dir THEN "corrupted"
                             ELSE IF b.zip THEN "zipped"
                             ELSE "non-available"
            /\ (call.pc = "download" \/ call.steps # <<>>
                   \/ call.outcome = "raised" \/ fs # b)
                  => call.status = "non-available"
            /\ call.status = "non-available" =>
                  \/ call.pc = "download"
                  \/ call.outcome \in {"raised", "exited"}
                  \/ call.steps = <<"download_sequence_data",
                                    "create_rgb_folder", "create_rgb_csv",
                                    "create_imu_csv", "create_calibration_yaml",
                                    "create_groundtruth_csv",
                                    "remove_unused_files">>
            /\ IsPrefix(call.steps,
                        <<"download_sequence_data", "create_rgb_folder",
                          "create_rgb_csv", "create_imu_csv",
                          "create_calibration_yaml", "create_groundtruth_csv",
                          "remove_unused_files">>)
            /\ call.status \in {"available", "zipped"} =>
                  call.outcome = "returned" /\ fs = b
            /\ call.status = "corrupted" =>
                  call.outcome = "exited" /\ fs = b

C29_Witness ==
    /\ call.op = "download" /\ call.outcome = "returned"
    /\ ~call.before.dir /\ ~call.before.zip
    /\ Len(call.steps) = 7
    /\ check_sequence_availability(fs) = "available"

====
